---- MODULE Spec2Model ----
(***************************************************************************)
(* Model of BozoBOT.                                                       *)
(*                                                                         *)
(* The media server (src/fastapi_server.py): the ConnectionManager that    *)
(* tracks the connected playback clients, the /ws endpoint that feeds it,  *)
(* the broadcast routes that fan a directive out to every client and the   *)
(* /health route.                                                          *)
(*                                                                         *)
(* The Discord bot (src/discord_bot.py): the similarity engine that scores *)
(* a file stem against a query, the resolver that returns the five best    *)
(* entries of a cache, the play and search commands that use it, and the   *)
(* catalog: the caches built by a walk of the media folders, saved to and  *)
(* loaded from their snapshot files, and rebuilt by !reload.  The bot and  *)
(* the server are two processes: the actions of one leave the variables of *)
(* the other alone, and each has its own specifications (SpecScore,        *)
(* SpecSearch, SpecBot and SpecCatalog for the bot).                       *)
(*                                                                         *)
(* The server runs on one asyncio event loop.  Code between two awaits is  *)
(* atomic; at every `await connection.send_text(...)` the broadcast is     *)
(* suspended and any other coroutine (a connect, a disconnect, a client    *)
(* message, another broadcast) may run.  Each action below is one such     *)
(* atomic stretch of code.                                                 *)
(*                                                                         *)
(* returned, task[b].sent, task[b].members0 and wire are history: they     *)
(* record what the calls did and never influence a step.  A run records    *)
(* the histories named in `traced`, which is fixed by the initial state:   *)
(* Spec records sent, SpecCount members0, SpecMembers both, SpecWire the   *)
(* wire.  The program's behaviours are the same in all four.               *)
(***************************************************************************)
EXTENDS Integers, Sequences, FiniteSets, TLC

MaxSockets == 2        \* websockets that may ever connect
MaxBroadcasts == 2     \* broadcast calls that may ever be issued

WebSockets == 1..MaxSockets
Broadcasts == 1..MaxBroadcasts

None == 0              \* Python's None for a connection variable

\* decoded client messages: a media_state report with or without a state
\* key, and a message of another type
Messages ==
    { [type |-> "media_state", state |-> "playing"],
      [type |-> "media_state"],
      [type |-> "ping"] }

VARIABLES
    manager,   \* the ConnectionManager: active_connections, media_states
    endpoint,  \* per websocket, the position of its websocket_endpoint call
    task,      \* per broadcast call, the position and locals of the call
    returned,  \* the return of a call, in the state it returns to
    traced,    \* the histories the run records: "sent", "members", "wire"
    wire,      \* per websocket, the call whose message it was sent last
    bot,       \* the MediaSelfBot: sound_cache, video_cache
    disk,      \* the paths that exist in the media folder
    args,      \* the arguments a function of the bot is applied to
    reply,     \* what a function or command of the bot did, in the state
               \* it returns to
    tree,      \* per media folder, the files a walk of it yields, in order
    pickled,   \* sound_cache.pkl and video_cache.pkl
    loader,    \* the position and locals of on_ready or reload_cache
    inbox      \* the commands that have arrived and are not handled yet

server_vars == <<manager, endpoint, task, returned, traced, wire>>
bot_vars == <<bot, disk, args, reply>>
catalog_vars == <<tree, pickled, loader, inbox>>
vars == <<manager, endpoint, task, returned, traced, wire,
          bot, disk, args, reply, tree, pickled, loader, inbox>>

----------------------------------------------------------------------------
(* Python helpers *)

Range(s) == {s[i] : i \in 1..Len(s)}

\* list.remove(x): drops the first occurrence of x
ListRemove(s, x) ==
    LET i == CHOOSE k \in 1..Len(s) :
                 s[k] = x /\ \A j \in 1..(k - 1) : s[j] # x
    IN  SubSeq(s, 1, i - 1) \o SubSeq(s, i + 1, Len(s))

\* d[k] = v
DictSet(d, k, v) ==
    [x \in (DOMAIN d) \cup {k} |-> IF x = k THEN v ELSE d[x]]

\* del d[k]
DictDel(d, k) == [x \in (DOMAIN d) \ {k} |-> d[x]]

\* d.get(k, default)
DictGet(d, k, default) == IF k \in DOMAIN d THEN d[k] ELSE default

EmptyDict == [x \in {} |-> "null"]

----------------------------------------------------------------------------
(* ConnectionManager *)

\* ConnectionManager.connect, after the accept
connect(m, websocket) ==
    [active_connections |-> Append(m.active_connections, websocket),
     media_states       |-> DictSet(m.media_states, websocket, "null")]

\* a disconnect that drops the state entry but leaves the list alone
disconnect_keep_listed(m, websocket) ==
    [m EXCEPT !.media_states = DictDel(@, websocket)]

\* a disconnect without the membership test: an unknown websocket makes it
\* drop the last element of the list
disconnect_unguarded(m, websocket) ==
    IF websocket \in Range(m.active_connections)
    THEN [active_connections |-> ListRemove(m.active_connections, websocket),
          media_states       |-> DictDel(m.media_states, websocket)]
    ELSE IF m.active_connections = <<>>
         THEN m
         ELSE [m EXCEPT !.active_connections =
                            SubSeq(@, 1, Len(@) - 1)]

\* ConnectionManager.disconnect
disconnect(m, websocket) ==
    IF websocket \in Range(m.active_connections)
    THEN [active_connections |-> ListRemove(m.active_connections, websocket),
          media_states       |-> IF websocket \in DOMAIN m.media_states
                                 THEN DictDel(m.media_states, websocket)
                                 ELSE m.media_states]
    ELSE m

\* ConnectionManager.handle_message
handle_message(m, websocket, data) ==
    IF DictGet(data, "type", "none") = "media_state"
    THEN [m EXCEPT !.media_states =
                       DictSet(@, websocket, DictGet(data, "state", "null"))]
    ELSE m

\* a prune that stops after the first failed connection
prune_first_only(m, disconnected) ==
    IF disconnected = <<>> THEN m ELSE disconnect(m, Head(disconnected))

\* `for conn in disconnected: self.disconnect(conn)`
RECURSIVE prune(_, _)
prune(m, disconnected) ==
    IF disconnected = <<>>
    THEN m
    ELSE prune(disconnect(m, Head(disconnected)), Tail(disconnected))

\* a count taken over the state entries instead of the connection list
clients_notified_states(m) == Cardinality(DOMAIN m.media_states)

\* `"clients_notified": len(manager.active_connections)` of the routes
clients_notified(m) == Len(m.active_connections)

\* the JSON body a broadcasting route returns
route_response(m) ==
    [status |-> "success", clients_notified |-> clients_notified(m)]

NoResponse == [status |-> "pending", clients_notified |-> 0]

\* a status read from the end of the connection list
health_check_last(m) ==
    [media_status |->
         IF m.active_connections # <<>>
         THEN DictGet(m.media_states,
                      m.active_connections[Len(m.active_connections)], "null")
         ELSE "null",
     status |-> "success",
     active_connections |-> Len(m.active_connections)]

\* GET /health (and the bridge's get_server_status): the state stored for
\* `manager.active_connections[0]`, "null" when the list is empty.  The
\* timestamp of the body is left out.
health_check(m) ==
    [media_status |->
         IF m.active_connections # <<>>
         THEN DictGet(m.media_states, Head(m.active_connections), "null")
         ELSE "null",
     status |-> "success",
     active_connections |-> Len(m.active_connections)]

----------------------------------------------------------------------------
(* One broadcast call: route + ConnectionManager.broadcast_* *)

\* The locals of a call, which are gone when it has returned.  idx is the
\* position of the list iterator of `for connection in
\* self.active_connections` (the number of elements fetched so far).
\* sent and members0 are the call's history, for the properties: the
\* connections send_text was called on, in order (when "sent" is traced),
\* and the list as it was when the call began (when "members" is traced).
IdleTask ==
    [pc           |-> "idle",
     idx          |-> 0,
     connection   |-> None,
     disconnected |-> <<>>,
     members0     |-> <<>>,
     sent         |-> <<>>]

\* a failed send that is tried again: the iterator is stepped back
after_send_retry(t, ok) ==
    IF ok THEN t
    ELSE [t EXCEPT !.idx = @ - 1]

\* the try/except around send_text, once the send has completed
after_send(t, ok) ==
    IF ok THEN t
    ELSE [t EXCEPT !.disconnected = Append(@, t.connection)]

\* the list iterator has a next element
has_next(t, m) == t.idx < Len(m.active_connections)

\* the iterator yields the next element and send_text is called on it
next_send(t, m) ==
    LET c == m.active_connections[t.idx + 1]
    IN  [t EXCEPT !.pc = "sending",
                  !.idx = @ + 1,
                  !.connection = c,
                  !.sent = IF "sent" \in traced THEN Append(@, c) ELSE @]

\* the loop is over: the call returns and its locals are gone
finish(t) == [IdleTask EXCEPT !.pc = "done"]

\* What a call that returns has done: t its locals at the return, m the
\* manager before the prune, r the response the route builds from the
\* manager as it is after the prune.  stayed are the sessions that
\* were registered from the beginning of the call to its end (a websocket
\* registers once in its life); it is empty when members0 is not recorded.
summary(b, t, m, r) ==
    [call         |-> b,
     members0     |-> t.members0,
     sent         |-> t.sent,
     disconnected |-> t.disconnected,
     stayed       |-> Range(t.members0) \cap Range(m.active_connections),
     response     |-> r]

NoReturn == summary(None, IdleTask, [active_connections |-> <<>>], NoResponse)

----------------------------------------------------------------------------
(* discord_bot.py: strings *)

\* A string is a sequence of characters.  The characters that matter to
\* the similarity engine: two letters, an upper-case letter, the blank,
\* the parentheses and the hyphen.
Alphabet == {"a", "b", "A", " ", "(", ")", "-"}

MaxStem == 3           \* longest file stem scored
MaxQuery == 2          \* longest query scored

Strings(n) == UNION {[1..k -> Alphabet] : k \in 0..n}

MinOf(S) == CHOOSE x \in S : \A y \in S : x <= y
MaxOf(S) == CHOOSE x \in S : \A y \in S : y <= x

\* str.isspace of one character, and \s of the regular expressions
isspace(c) == c = " "

\* str.lower
lower(s) == [i \in 1..Len(s) |-> IF s[i] = "A" THEN "a" ELSE s[i]]

\* str.strip
strip(s) ==
    LET solid == {i \in 1..Len(s) : ~isspace(s[i])}
    IN  IF solid = {} THEN <<>> ELSE SubSeq(s, MinOf(solid), MaxOf(solid))

\* str.split(): the words between the runs of whitespace
RECURSIVE split(_)
split(s) ==
    IF s = <<>> THEN <<>>
    ELSE IF isspace(Head(s)) THEN split(Tail(s))
    ELSE LET n == MaxOf({k \in 1..Len(s) :
                            \A i \in 1..k : ~isspace(s[i])})
         IN  <<SubSeq(s, 1, n)>> \o split(SubSeq(s, n + 1, Len(s)))

\* sep.join(words)
RECURSIVE join(_, _)
join(sep, words) ==
    IF words = <<>> THEN <<>>
    ELSE IF Len(words) = 1 THEN Head(words)
    ELSE Head(words) \o sep \o join(sep, Tail(words))

\* `needle in haystack` of two strings
contains(haystack, needle) ==
    \E i \in 0..(Len(haystack) - Len(needle)) :
        SubSeq(haystack, i + 1, i + Len(needle)) = needle

\* the first index of the run of whitespace that ends just before p
run_start(s, p) == MinOf({i \in 1..p : \A j \in i..(p - 1) : isspace(s[j])})

\* the last index of the run of whitespace that begins just after q
run_end(s, q) ==
    MaxOf({e \in q..Len(s) : \A j \in (q + 1)..e : isspace(s[j])})

\* re.sub(r'\s*\([^)]*\)\s*', '', s): the leftmost match begins at the
\* whitespace before the first "(" that has a ")" after it and ends after
\* the whitespace behind the first such ")"; the search goes on behind it
RECURSIVE sub_parentheses(_)
sub_parentheses(s) ==
    LET opens == {p \in 1..Len(s) :
                     s[p] = "(" /\ \E q \in (p + 1)..Len(s) : s[q] = ")"}
    IN  IF opens = {} THEN s
        ELSE LET p == MinOf(opens)
                 q == MinOf({i \in (p + 1)..Len(s) : s[i] = ")"})
             IN  SubSeq(s, 1, run_start(s, p) - 1)
                     \o sub_parentheses(SubSeq(s, run_end(s, q) + 1, Len(s)))

\* re.sub(r'\s*-\s*.*$', '', s): everything from the whitespace before the
\* first "-" to the end
sub_dash(s) ==
    LET dashes == {p \in 1..Len(s) : s[p] = "-"}
    IN  IF dashes = {} THEN s
        ELSE SubSeq(s, 1, run_start(s, MinOf(dashes)) - 1)

----------------------------------------------------------------------------
(* discord_bot.py: similarity engine (search_sounds and search_videos     *)
(* define the same three functions)                                        *)

\* A score is an exact fraction of One.  One is a multiple of 100 and of
\* every length sum T of two strings scored, so that the hundredths of the
\* code and every ratio 2*M/T are whole numbers of units.
RECURSIVE Multiple(_, _, _)
Multiple(n, k, m) == IF (k * m) % n = 0 THEN k * m ELSE Multiple(n, k, m + 1)

RECURSIVE Lcm(_)
Lcm(n) == IF n <= 1 THEN 1 ELSE Multiple(n, Lcm(n - 1), 1)

One == 100 * Lcm(2 * MaxStem)

\* p hundredths
Pct(p) == (p * One) \div 100

\* normalize_string
normalize_string(s) == join(<<" ">>, split(strip(lower(s))))

\* extract_base_name
extract_base_name(name) == normalize_string(sub_dash(sub_parentheses(name)))

\* SequenceMatcher.get_matching_blocks, summed: the number of characters of
\* a[alo..ahi] matched in b[blo..bhi].  find_longest_match returns the
\* longest common block, of those the one that begins first in a, of those
\* the one that begins first in b; the pieces left and right of it are
\* matched in the same way.  (No junk: autojunk needs 200 characters.)
RECURSIVE matching(_, _, _, _, _, _)
matching(a, b, alo, ahi, blo, bhi) ==
    LET blocks == {x \in (alo..ahi) \X (blo..bhi) \X (1..(ahi - alo + 1)) :
                      /\ x[1] + x[3] - 1 <= ahi
                      /\ x[2] + x[3] - 1 <= bhi
                      /\ \A d \in 0..(x[3] - 1) : a[x[1] + d] = b[x[2] + d]}
    IN  IF blocks = {} THEN 0
        ELSE LET best == CHOOSE x \in blocks : \A y \in blocks :
                             \/ x[3] > y[3]
                             \/ x[3] = y[3] /\ x[1] < y[1]
                             \/ x[3] = y[3] /\ x[1] = y[1] /\ x[2] <= y[2]
                 i == best[1]
                 j == best[2]
                 k == best[3]
             IN  k + matching(a, b, alo, i - 1, blo, j - 1)
                   + matching(a, b, i + k, ahi, j + k, bhi)

\* SequenceMatcher(None, a, b).ratio(): 2.0 * matches / length, 1.0 for two
\* empty strings
ratio(a, b) ==
    LET length == Len(a) + Len(b)
    IN  IF length = 0 THEN One
        ELSE (2 * matching(a, b, 1, Len(a), 1, Len(b)) * One) \div length

\* a test for the hyphen alone
has_extra_hyphen(s) == "-" \in Range(s)

\* `'(' in s or '-' in s`
has_extra(s) == "(" \in Range(s) \/ "-" \in Range(s)

\* a penalty only for a stem that has more than the query
base_match_score_asymmetric(has_stem_extra, has_query_extra) ==
    IF has_stem_extra /\ ~has_query_extra THEN Pct(92) ELSE Pct(95)

\* calculate_similarity, the branch of two equal base names
base_match_score(has_stem_extra, has_query_extra) ==
    IF has_stem_extra /\ ~has_query_extra THEN Pct(92)
    ELSE IF has_query_extra /\ ~has_stem_extra THEN Pct(92)
    ELSE Pct(95)

\* a boost that is not capped
boost_uncapped(combined_score, applies, bonus, cap) ==
    IF applies THEN combined_score + bonus ELSE combined_score

\* `combined_score = min(cap, combined_score + bonus)` under its condition
boost(combined_score, applies, bonus, cap) ==
    IF applies THEN MinOf({cap, combined_score + bonus}) ELSE combined_score

\* a partial match that boosts for the base names first and for the full
\* names last
partial_score_base_boost_first(normalized_stem, normalized_query, base_stem, base_query) ==
    boost(boost((7 * ratio(base_stem, base_query)
                    + 3 * ratio(normalized_stem, normalized_query)) \div 10,
                contains(base_stem, base_query) /\ base_query # base_stem,
                Pct(10), Pct(90)),
          /\ contains(normalized_stem, normalized_query)
          /\ normalized_query # normalized_stem,
          Pct(15), Pct(95))

\* calculate_similarity, the partial match: 0.7 of the ratio of the base
\* names and 0.3 of the ratio of the full names, then the boost for a
\* query contained in the stem and the boost for a base query contained in
\* the base stem
partial_score(normalized_stem, normalized_query, base_stem, base_query) ==
    boost(boost((7 * ratio(base_stem, base_query)
                    + 3 * ratio(normalized_stem, normalized_query)) \div 10,
                /\ contains(normalized_stem, normalized_query)
                /\ normalized_query # normalized_stem,
                Pct(15), Pct(95)),
          contains(base_stem, base_query) /\ base_query # base_stem,
          Pct(10), Pct(90))

\* rules that try the base names before the full strings
rules_base_first(stem, query, normalized_stem, normalized_query, base_stem, base_query) ==
    IF base_stem = base_query /\ base_stem # <<>>
    THEN base_match_score(has_extra(stem), has_extra(query))
    ELSE IF normalized_stem = normalized_query THEN One
    ELSE partial_score(normalized_stem, normalized_query,
                       base_stem, base_query)

\* calculate_similarity, once the normalized strings and the base names
\* are computed: the exact match, the exact base match, the partial match
rules(stem, query, normalized_stem, normalized_query, base_stem, base_query) ==
    IF normalized_stem = normalized_query THEN One
    ELSE IF base_stem = base_query /\ base_stem # <<>>
    THEN base_match_score(has_extra(stem), has_extra(query))
    ELSE partial_score(normalized_stem, normalized_query,
                       base_stem, base_query)

\* calculate_similarity.  The code computes in binary floating point; the
\* value here is the exact one, from which the float of a partial match
\* differs by a rounding (less than 1e-15).
calculate_similarity(stem, query) ==
    rules(stem, query,
          normalize_string(stem), normalize_string(query),
          extract_base_name(stem), extract_base_name(query))

----------------------------------------------------------------------------
(* discord_bot.py: resolver *)

\* A cache is a dict {stem: file_path}, which keeps its keys in the order
\* they were inserted: a sequence of entries with distinct stems.  A path
\* is the folder it lies in and its stem.
Path(folder, stem) == [folder |-> folder, stem |-> stem]
Entry(folder, stem) == [stem |-> stem, filepath |-> Path(folder, stem)]

TopN == 5              \* `scored_results[:5]`

\* the loop `for stem, filepath in self.sound_cache.items()`
scored_results(cache, query) ==
    [i \in 1..Len(cache) |->
        [stem     |-> cache[i].stem,
         filepath |-> cache[i].filepath,
         score    |-> calculate_similarity(cache[i].stem, query)]]

\* x put into a list sorted by descending score, in front of every element
\* that does not score above it
RECURSIVE insort(_, _)
insort(x, sorted) ==
    IF sorted = <<>> THEN <<x>>
    ELSE IF Head(sorted).score > x.score
         THEN <<Head(sorted)>> \o insort(x, Tail(sorted))
         ELSE <<x>> \o sorted

\* a sort that puts the later of two equal scores first
RECURSIVE sort_unstable(_)
sort_unstable(results) ==
    IF results = <<>> THEN <<>>
    ELSE insort(results[Len(results)],
                sort_unstable(SubSeq(results, 1, Len(results) - 1)))

\* `scored_results.sort(key=lambda x: x[2], reverse=True)`: a stable sort,
\* elements of equal score keep the order they had
RECURSIVE sort(_)
sort(results) ==
    IF results = <<>> THEN <<>>
    ELSE insort(Head(results), sort(Tail(results)))

\* `results[:n]`
first_n(results, n) == SubSeq(results, 1, MinOf({n, Len(results)}))

\* a cut to the first five taken before the sort
top_unsorted(cache, query) ==
    sort(first_n(scored_results(cache, query), TopN))

\* the scored, sorted and cut list of search_sounds and search_videos
top(cache, query) == first_n(sort(scored_results(cache, query)), TopN)

\* `[(filepath, score) for stem, filepath, score in ...]`
pairs(results) ==
    [i \in 1..Len(results) |->
        [filepath |-> results[i].filepath, score |-> results[i].score]]

\* a resolver that returns only the entries that score above 0
search_above_zero(cache, query) ==
    SelectSeq(pairs(top(cache, query)), LAMBDA m : m.score > 0)

\* what both functions return for a cache: [] for an empty cache, else the
\* (filepath, score) pairs of the first five
search(cache, query) ==
    IF cache = <<>> THEN <<>> ELSE pairs(top(cache, query))

\* search_sounds
search_sounds(b, query) == search(b.sound_cache, query)

\* search_videos
search_videos(b, query) == search(b.video_cache, query)

----------------------------------------------------------------------------
(* discord_bot.py: commands *)

NoPath == [folder |-> "none", stem |-> <<>>]

Confident == 80        \* `if match_ratio < 0.8`, in hundredths

\* `self.sound_cache == 0`: a dict never equals an integer
equals_zero(cache) == FALSE

\* a test that lets a top score of 0.6 through
confident_lenient(match_ratio) == ~(match_ratio < Pct(60))

\* the test on the top score that lets a command trigger playback
confident(match_ratio) == ~(match_ratio < Pct(Confident))

\* What a command did: the replies it sent in order, the path it called
\* the bridge's trigger with, what the resolver returned and the entries
\* the reply displays or names.
Outcome(op, query, said, matches, shown, played) ==
    [op      |-> op,
     query   |-> query,
     said    |-> said,
     matches |-> matches,
     shown   |-> shown,
     played  |-> played]

\* web_play_sound and web_play_video from `sound_path, match_ratio =
\* matches[0]` on: first is matches[0], said0 the replies sent so far,
\* triggered what the trigger of the bridge returns
play_first(op, query, said0, matches, first, triggered) ==
    IF ~confident(first.score)
    THEN Outcome(op, query, said0 \o <<"not matched enough">>,
                 matches, <<first.filepath.stem>>, NoPath)
    ELSE Outcome(op, query,
                 said0 \o <<IF triggered THEN "now playing"
                            ELSE "failed to trigger">>,
                 matches, <<first.filepath.stem>>, first.filepath)

\* web_play_sound and web_play_video from the test of the server on:
\* reachable is whether get_server_status reached the server, matches what
\* the resolver returns
play_matches(op, query, said0, matches, reachable, triggered) ==
    IF ~reachable
    THEN Outcome(op, query, said0 \o <<"server not running">>,
                 <<>>, <<>>, NoPath)
    ELSE IF matches = <<>>
    THEN Outcome(op, query, said0 \o <<"nothing found">>,
                 matches, <<>>, NoPath)
    ELSE play_first(op, query, said0, matches, matches[1], triggered)

\* web_play_sound and web_play_video on a cache
web_play(op, cache, query, reachable, triggered) ==
    play_matches(op, query,
                 IF equals_zero(cache) THEN <<"cache not loaded">> ELSE <<>>,
                 search(cache, query), reachable, triggered)

\* the loop `for file_path, ratio in matches` of !search and !vsearch: the
\* list iterator is at idx, m is the match it yields; a match whose path
\* is gone is removed from the list under the iterator, and every match
\* the iterator yields gets its line in the reply
RECURSIVE result_text(_, _, _)
result_line(matches, idx, d, m) ==
    <<m.filepath.stem>>
        \o result_text(IF m.filepath \notin d
                       THEN ListRemove(matches, m) ELSE matches,
                       idx + 1, d)

result_text(matches, idx, d) ==
    IF idx >= Len(matches) THEN <<>>
    ELSE result_line(matches, idx, d, matches[idx + 1])

\* the !search and !vsearch branches of on_message from `if not matches`
\* on
search_reply(op, query, matches, cached, d) ==
    IF matches = <<>>
    THEN Outcome(op, query,
                 <<IF cached > 0 THEN "nothing found"
                   ELSE "cache not loaded">>,
                 matches, <<>>, NoPath)
    ELSE Outcome(op, query, <<"results">>,
                 matches, result_text(matches, 0, d), NoPath)

\* the !search and !vsearch branches of on_message, for a query that is
\* not blank
web_search(op, cache, query, d) ==
    search_reply(op, query, search(cache, query), Len(cache), d)

\* `$random`, the name that asks !play and !loop for any sound
Random == <<"$", "r", "a", "n", "d", "o", "m">>

\* the loop parameter of web_play_sound: the argument if the call passes
\* one, else the default of `loop=False`
loop_of(passed, loop) == IF passed THEN loop ELSE FALSE

\* the json that trigger_audio_playback posts to /play
play_json(sound_path, loop) ==
    [audio_url |-> sound_path, volume |-> 1, loop |-> loop]

\* the !play and !loop branches of on_message for a name that is not
\* blank.  choice is what `random.choice` takes of the keys of the sound
\* cache; passed and loop are the third argument of the call of
\* web_play_sound.  posted is the json sent to /play, if one was.
play_command(op, cache, sound_name, choice, passed, loop, reachable, triggered) ==
    [op         |-> op,
     sound_name |-> sound_name,
     loop       |-> loop_of(passed, loop),
     outcome    |-> web_play("play", cache,
                             IF lower(sound_name) = Random
                             THEN cache[choice].stem ELSE sound_name,
                             reachable, triggered)]

\* `random.choice` of an empty list raises IndexError, which nothing in
\* on_message catches: no reply, nothing played
play_command_raises(op, sound_name) ==
    [op         |-> op,
     sound_name |-> sound_name,
     loop       |-> FALSE,
     outcome    |-> Outcome("play", sound_name, <<>>, <<>>, <<>>, NoPath)]

----------------------------------------------------------------------------
(* discord_bot.py: catalog *)

\* A file that a walk of a media folder yields: its path, its suffix, and
\* whether the body of the loop raises on it (a name that `print` cannot
\* encode in load_sound_cache, an `is_file()` that the file system refuses
\* in load_video_cache).  The folder of a path is the tuple of the names of
\* its directories, from the media folder down.
File(folder, stem, suffix, raises) ==
    [filepath |-> Path(folder, stem), suffix |-> suffix, raises |-> raises]

\* `self.supported_formats`
supported_formats == {".ogg", ".mp3", ".wav", ".mp4", ".av1"}

\* `file_path.suffix.lower()`
suffix_lower(suffix) == IF suffix = ".MP3" THEN ".mp3" ELSE suffix

\* `'Elvis' in str(file_path.absolute())`
has_elvis(filepath) == "Elvis" \in Range(filepath.folder)

\* `self.sound_cache[file_path.stem] = file_path`: a key that is in the
\* dict keeps its place and gets the new value
cache_set(cache, stem, filepath) ==
    IF \E i \in 1..Len(cache) : cache[i].stem = stem
    THEN [i \in 1..Len(cache) |->
             IF cache[i].stem = stem
             THEN [stem |-> stem, filepath |-> filepath]
             ELSE cache[i]]
    ELSE Append(cache, [stem |-> stem, filepath |-> filepath])

\* what the body of the loop of load_sound_cache does with a file
body_sound(f) ==
    IF has_elvis(f.filepath) THEN "continue"
    ELSE IF suffix_lower(f.suffix) \notin supported_formats THEN "skip"
    ELSE IF f.raises THEN "raise"
    ELSE "add"

\* what the body of the loop of load_video_cache does with a file
body_video(f) ==
    IF has_elvis(f.filepath) THEN "continue"
    ELSE IF f.raises THEN "raise"
    ELSE IF suffix_lower(f.suffix) \notin supported_formats THEN "skip"
    ELSE "add"

Kinds == {"sound", "video"}

body(kind, f) == IF kind = "sound" THEN body_sound(f) ELSE body_video(f)

\* the attribute of the bot that holds the cache of a kind
attr(kind) == IF kind = "sound" THEN "sound_cache" ELSE "video_cache"

\* `self.sounds_folder`, `self.video_folder` under the media folder
folder_of(kind) == IF kind = "sound" THEN "Musique" ELSE "Video"

\* `str(file_path.parent.relative_to(self.sounds_folder))`
relative_parent(filepath) == Tail(filepath.folder)

\* pickle of a path: the class and the parts of the path
reduce_path(filepath) == <<"Path", filepath.folder, filepath.stem>>

\* unpickle of a path
rebuild_path(reduced) == Path(reduced[2], reduced[3])

\* a dict built from its pickled items, set in the order they were written
RECURSIVE rebuild_dict(_)
rebuild_dict(items) ==
    IF items = <<>> THEN <<>>
    ELSE cache_set(rebuild_dict(SubSeq(items, 1, Len(items) - 1)),
                   items[Len(items)][1],
                   rebuild_path(items[Len(items)][2]))

\* a dict rebuilt from the list of stems of the snapshot, every path taken
\* to lie in the folder of the first one
rebuild_from_stems(blob) ==
    <<[i \in 1..Len(blob.dict) |->
          [stem     |-> blob.list[i],
           filepath |-> Path(blob.dict[1][2][2], blob.list[i])]],
      blob.list, blob.set>>

\* `pickle.dump((self.sound_cache, sound_files, folders_scanned), f)`: the
\* items of the dict in order, each path reduced to its parts
pickle_dump(cache, files, folders) ==
    [dict |-> [i \in 1..Len(cache) |->
                  <<cache[i].stem, reduce_path(cache[i].filepath)>>],
     list |-> files,
     set  |-> folders]

\* `pickle.load(f)`: the tuple of the dict, the list and the set
pickle_load(blob) == <<rebuild_dict(blob.dict), blob.list, blob.set>>

\* A snapshot file.  bytes is its content; saved is history, the cache an
\* index had when it was written to the file.
NoFile == [exists |-> FALSE]

Snapshot(cache, files, folders) ==
    [exists |-> TRUE,
     bytes  |-> pickle_dump(cache, files, folders),
     saved  |-> cache]

\* The locals and the position of on_ready or reload_cache and of the
\* load_sound_cache or load_video_cache it has called.  pos is the number
\* of files the walk has yielded; log is what the two functions have
\* printed and logged.
Loader(pc, force, old_sound_cache, old_video_cache) ==
    [pc              |-> pc,
     force           |-> force,
     old_sound_cache |-> old_sound_cache,
     old_video_cache |-> old_video_cache,
     pos             |-> 0,
     files           |-> <<>>,
     folders         |-> {},
     log             |-> <<>>]

\* on_ready has not called load_sound_cache yet
ConstructedLoader == Loader("constructed", FALSE, <<>>, <<>>)

\* neither on_ready nor reload_cache is running
IdleLoader == Loader("idle", FALSE, <<>>, <<>>)

\* the position inside the walk of a kind
walking(kind) == IF kind = "sound" THEN "sounds" ELSE "videos"

\* load_sound_cache, load_video_cache: from the call to the first file of
\* the walk, or to the return when the snapshot is loaded
load_enter(kind, l, b, p, next) ==
    IF p[kind].exists /\ ~l.force
    THEN [bot    |-> [b EXCEPT ![attr(kind)] = pickle_load(p[kind].bytes)[1]],
          loader |-> [l EXCEPT !.pc = next,
                               !.log = Append(@, <<kind, "loaded">>)]]
    ELSE [bot    |-> [b EXCEPT ![attr(kind)] = <<>>],
          loader |-> [l EXCEPT !.pc = walking(kind),
                               !.pos = 0,
                               !.files = <<>>,
                               !.folders = {}]]

\* one turn of the loop over the files of the walk: f is the file the walk
\* yields, does what the body of the loop does with it.  An exception ends
\* the function in its `except Exception`.
load_file(kind, l, b, f, does, next) ==
    IF does = "raise"
    THEN [bot    |-> b,
          loader |-> [l EXCEPT !.pc = next,
                               !.log = Append(@, <<kind, "error">>)]]
    ELSE IF does = "add"
    THEN [bot    |-> [b EXCEPT ![attr(kind)] =
                          cache_set(@, f.filepath.stem, f.filepath)],
          loader |-> [l EXCEPT !.pos = @ + 1,
                               !.files = Append(@, f.filepath.stem),
                               !.folders =
                                   @ \cup {relative_parent(f.filepath)}]]
    ELSE [bot    |-> b,
          loader |-> [l EXCEPT !.pos = @ + 1]]

\* the walk is over: the counts are logged, the snapshot is written and the
\* function returns
load_save(kind, l, b, p, next) ==
    [pickled |-> [p EXCEPT ![kind] =
                      Snapshot(b[attr(kind)], l.files, l.folders)],
     loader  |-> [l EXCEPT !.pc = next,
                           !.log = Append(@, <<kind, "cached">>)]]

----------------------------------------------------------------------------
\* the state after `manager = ConnectionManager()`, no call begun; t is
\* what the run records
start(t) ==
    /\ manager = [active_connections |-> <<>>, media_states |-> EmptyDict]
    /\ endpoint = [w \in WebSockets |-> "new"]
    /\ task = [b \in Broadcasts |-> IdleTask]
    /\ wire = [w \in WebSockets |-> None]
    /\ returned = NoReturn
    /\ traced = t

\* the state after `MediaSelfBot()`: both caches empty, nothing applied
EmptyBot == [sound_cache |-> <<>>, video_cache |-> <<>>]
NoArgs == [stem |-> <<>>, query |-> <<>>]
NoReply == [op |-> "none"]

\* no file in the media folders, no snapshot, no command
NoTree == [sound |-> <<>>, video |-> <<>>]
NoSnapshots == [sound |-> NoFile, video |-> NoFile]

\* the catalog is left out of the run
no_catalog ==
    /\ tree = NoTree
    /\ pickled = NoSnapshots
    /\ loader = IdleLoader
    /\ inbox = <<>>

constructed ==
    /\ bot = EmptyBot
    /\ disk = {}
    /\ args = NoArgs
    /\ reply = NoReply
    /\ no_catalog

Init == start({"sent"}) /\ constructed

\* the same program, recording the members0 of every call instead
InitCount == start({"members"}) /\ constructed

\* the same program, recording both
InitMembers == start({"sent", "members"}) /\ constructed

\* the same program, recording the wire
InitWire == start({"wire"}) /\ constructed

\* send_text(message of call b) on connection c, as the wire records it
on_wire(c, b) == IF "wire" \in traced THEN [wire EXCEPT ![c] = b] ELSE wire

\* websocket_endpoint: a client connects
ws_connect(w) ==
    /\ endpoint[w] = "new"
    /\ \A v \in WebSockets : v < w => endpoint[v] # "new"
    /\ manager' = connect(manager, w)
    /\ endpoint' = [endpoint EXCEPT ![w] = "open"]
    /\ returned' = NoReturn
    /\ UNCHANGED <<task, traced, wire, bot, disk, args, reply, catalog_vars>>

\* websocket_endpoint: receive_text returns a message, handle_message
ws_message(w, data) ==
    /\ endpoint[w] = "open"
    /\ manager' = handle_message(manager, w, data)
    /\ returned' = NoReturn
    /\ UNCHANGED <<endpoint, task, traced, wire, bot, disk, args, reply,
                   catalog_vars>>

\* websocket_endpoint: receive_text raises, manager.disconnect
ws_disconnect(w) ==
    /\ endpoint[w] = "open"
    /\ manager' = disconnect(manager, w)
    /\ endpoint' = [endpoint EXCEPT ![w] = "closed"]
    /\ returned' = NoReturn
    /\ UNCHANGED <<task, traced, wire, bot, disk, args, reply, catalog_vars>>

\* A route (POST /play, /vplay, /pause or /stop) is called and enters
\* broadcast_audio, broadcast_video or broadcast_command, up to the first
\* send_text, or to the return when nobody is connected.  The three methods
\* have the same body and differ in the payload only, which is not modelled:
\* a message on the wire is identified by the call that sent it.  Calls are
\* numbered in the order they begin.
broadcast_begin(b) ==
    /\ task[b].pc = "idle"
    /\ \A c \in Broadcasts : c < b => task[c].pc # "idle"
    /\ LET t0 == [task[b] EXCEPT !.members0 = IF "members" \in traced
                                               THEN manager.active_connections
                                               ELSE <<>>]
       IN  IF manager.active_connections = <<>>
           THEN /\ task' = [task EXCEPT ![b] = finish(t0)]
                /\ returned' = summary(b, t0, manager,
                                        route_response(manager))
                /\ wire' = wire
           ELSE LET t1 == next_send(t0, manager)
                IN  /\ task' = [task EXCEPT ![b] = t1]
                    /\ wire' = on_wire(t1.connection, b)
                    /\ returned' = NoReturn
    /\ UNCHANGED <<manager, endpoint, traced, bot, disk, args, reply,
                   catalog_vars>>

\* a send_text completes (ok) or raises (~ok); the loop goes on to the next
\* send_text, or ends, prunes the failed connections and returns
broadcast_step(b, ok) ==
    /\ task[b].pc = "sending"
    /\ LET t1 == after_send(task[b], ok)
       IN  IF has_next(t1, manager)
           THEN LET t2 == next_send(t1, manager)
                IN  /\ task' = [task EXCEPT ![b] = t2]
                    /\ wire' = on_wire(t2.connection, b)
                    /\ manager' = manager
                    /\ returned' = NoReturn
           ELSE LET m1 == prune(manager, t1.disconnected)
                IN  /\ manager' = m1
                    /\ task' = [task EXCEPT ![b] = finish(t1)]
                    /\ returned' = summary(b, t1, manager,
                                            route_response(m1))
                    /\ wire' = wire
    /\ UNCHANGED <<endpoint, traced, bot, disk, args, reply,
                   catalog_vars>>

Next ==
    \/ \E w \in WebSockets : ws_connect(w)
    \/ \E w \in WebSockets, data \in Messages : ws_message(w, data)
    \/ \E w \in WebSockets : ws_disconnect(w)
    \/ \E b \in Broadcasts : broadcast_begin(b)
    \/ \E b \in Broadcasts, ok \in BOOLEAN : broadcast_step(b, ok)

Spec == Init /\ [][Next]_vars

SpecCount == InitCount /\ [][Next]_vars

SpecMembers == InitMembers /\ [][Next]_vars

SpecWire == InitWire /\ [][Next]_vars

----------------------------------------------------------------------------
(* The similarity engine applied to every stem and query of the alphabet *)

InitScore ==
    /\ start({})
    /\ bot = EmptyBot
    /\ disk = {}
    /\ args \in [stem : Strings(MaxStem), query : Strings(MaxQuery)]
    /\ reply = NoReply
    /\ no_catalog

\* `score = calculate_similarity(stem, query)` of the scoring loop
score_entry ==
    /\ reply = NoReply
    /\ reply' = [op    |-> "calculate_similarity",
                 score |-> calculate_similarity(args.stem, args.query)]
    /\ UNCHANGED <<manager, endpoint, task, returned, traced, wire,
                   bot, disk, args, catalog_vars>>

NextScore == score_entry

SpecScore == InitScore /\ [][NextScore]_vars

----------------------------------------------------------------------------
(* The resolver applied to every cache of a few stems *)

\* the sequences of at most n distinct elements of S
Distinct(S, n) ==
    UNION {{f \in [1..k -> S] : \A i, j \in 1..k : i # j => f[i] # f[j]} :
              k \in 0..n}

\* the caches of at most n of the stems, files of one folder
Index(folder, stems, n) ==
    {[i \in 1..Len(f) |-> Entry(folder, f[i])] : f \in Distinct(stems, n)}

\* stems that score equal and stems that score different for the queries
Stems ==
    { <<"a">>, <<"A">>, <<"a", "-", "b">>, <<"a", "-", "a">>,
      <<"a", "b">>, <<"b">>, <<"b", "a">> }

Queries == { <<"a">>, <<"a", "b">> }

MaxCache == 6          \* most entries of a cache searched

\* one of the two caches holds the files, the other is empty
InitSearch ==
    /\ start({})
    /\ \/ \E c \in Index("Musique", Stems, MaxCache) :
              bot = [sound_cache |-> c, video_cache |-> <<>>]
       \/ \E v \in Index("Video", Stems, MaxCache) :
              bot = [sound_cache |-> <<>>, video_cache |-> v]
    /\ disk = {}
    /\ args \in [stem : {<<>>}, query : Queries]
    /\ reply = NoReply
    /\ no_catalog

\* `matches = await self.search_sounds(query)`
resolve_sounds ==
    /\ reply = NoReply
    /\ reply' = [op |-> "search_sounds", cache |-> bot.sound_cache,
                 matches |-> search_sounds(bot, args.query)]
    /\ UNCHANGED <<manager, endpoint, task, returned, traced, wire,
                   bot, disk, args, catalog_vars>>

\* `matches = await self.search_videos(query)`
resolve_videos ==
    /\ reply = NoReply
    /\ reply' = [op |-> "search_videos", cache |-> bot.video_cache,
                 matches |-> search_videos(bot, args.query)]
    /\ UNCHANGED <<manager, endpoint, task, returned, traced, wire,
                   bot, disk, args, catalog_vars>>

NextSearch == resolve_sounds \/ resolve_videos

SpecSearch == InitSearch /\ [][NextSearch]_vars

----------------------------------------------------------------------------
(* The commands of the bot on caches of a few files, some of which are   *)
(* deleted after the caches were built                                    *)

BotStems == { <<"a">>, <<"a", "-", "b">>, <<"b">> }

MaxFiles == 2          \* most files of a kind in the media folder

paths(cache) == {cache[i].filepath : i \in 1..Len(cache)}

InitBot ==
    /\ start({})
    /\ bot \in [sound_cache : Index("Musique", BotStems, MaxFiles),
                video_cache : Index("Video", BotStems, MaxFiles)]
    /\ disk = paths(bot.sound_cache) \cup paths(bot.video_cache)
    /\ args = NoArgs
    /\ reply = NoReply
    /\ no_catalog

\* The bot is idle between two messages; a command is handled from its
\* message to its last reply in one step.

\* `!play query` and `!loop query`: web_play_sound
web_play_sound(query, reachable, triggered) ==
    /\ reply = NoReply
    /\ reply' = web_play("play", bot.sound_cache, query,
                          reachable, triggered)
    /\ UNCHANGED <<manager, endpoint, task, returned, traced, wire,
                   bot, disk, args, catalog_vars>>

\* `!vplay query`: web_play_video
web_play_video(query, reachable, triggered) ==
    /\ reply = NoReply
    /\ reply' = web_play("vplay", bot.video_cache, query,
                          reachable, triggered)
    /\ UNCHANGED <<manager, endpoint, task, returned, traced, wire,
                   bot, disk, args, catalog_vars>>

\* `!search query`
on_message_search(query) ==
    /\ reply = NoReply
    /\ reply' = web_search("search", bot.sound_cache, query, disk)
    /\ UNCHANGED <<manager, endpoint, task, returned, traced, wire,
                   bot, disk, args, catalog_vars>>

\* `!vsearch query`
on_message_vsearch(query) ==
    /\ reply = NoReply
    /\ reply' = web_search("vsearch", bot.video_cache, query, disk)
    /\ UNCHANGED <<manager, endpoint, task, returned, traced, wire,
                   bot, disk, args, catalog_vars>>

\* `!play sound_name`: web_play_sound(message, sound_name), or
\* web_play_sound(message, random_sound_name) for $random
on_message_play(sound_name, choice, reachable, triggered) ==
    /\ reply = NoReply
    /\ choice <= Len(bot.sound_cache)
    /\ IF lower(sound_name) = Random
       THEN IF bot.sound_cache = <<>> THEN choice = 0 ELSE choice > 0
       ELSE choice = 0
    /\ reply' = IF lower(sound_name) = Random /\ bot.sound_cache = <<>>
                THEN play_command_raises("!play", sound_name)
                ELSE play_command("!play", bot.sound_cache, sound_name,
                                  choice, FALSE, FALSE, reachable, triggered)
    /\ UNCHANGED <<manager, endpoint, task, returned, traced, wire,
                   bot, disk, args, catalog_vars>>

\* `!loop sound_name`: web_play_sound(message, sound_name, True), or
\* `web_play_sound(message, random_sound_name), True` for $random, where
\* True is outside the call
on_message_loop(sound_name, choice, reachable, triggered) ==
    /\ reply = NoReply
    /\ choice <= Len(bot.sound_cache)
    /\ IF lower(sound_name) = Random
       THEN IF bot.sound_cache = <<>> THEN choice = 0 ELSE choice > 0
       ELSE choice = 0
    /\ reply' = IF lower(sound_name) = Random /\ bot.sound_cache = <<>>
                THEN play_command_raises("!loop", sound_name)
                ELSE play_command("!loop", bot.sound_cache, sound_name,
                                  choice, lower(sound_name) # Random, TRUE,
                                  reachable, triggered)
    /\ UNCHANGED <<manager, endpoint, task, returned, traced, wire,
                   bot, disk, args, catalog_vars>>

\* on_message has returned: the bot waits for the next message
on_message_return ==
    /\ reply # NoReply
    /\ reply' = NoReply
    /\ UNCHANGED <<manager, endpoint, task, returned, traced, wire,
                   bot, disk, args, catalog_vars>>

\* a media file is deleted from the folder
unlink(p) ==
    /\ reply = NoReply
    /\ p \in disk
    /\ disk' = disk \ {p}
    /\ UNCHANGED <<manager, endpoint, task, returned, traced, wire,
                   bot, args, reply, catalog_vars>>

NextBot ==
    \/ \E q \in Queries, reachable \in BOOLEAN, triggered \in BOOLEAN :
           web_play_sound(q, reachable, triggered)
    \/ \E q \in Queries, reachable \in BOOLEAN, triggered \in BOOLEAN :
           web_play_video(q, reachable, triggered)
    \/ \E q \in Queries : on_message_search(q)
    \/ \E q \in Queries : on_message_vsearch(q)
    \/ \E sound_name \in Queries \cup {Random}, choice \in 0..MaxFiles,
          reachable \in BOOLEAN, triggered \in BOOLEAN :
           on_message_play(sound_name, choice, reachable, triggered)
    \/ \E sound_name \in Queries \cup {Random}, choice \in 0..MaxFiles,
          reachable \in BOOLEAN, triggered \in BOOLEAN :
           on_message_loop(sound_name, choice, reachable, triggered)
    \/ on_message_return
    \/ \E p \in disk : unlink(p)

SpecBot == InitBot /\ [][NextBot]_vars

----------------------------------------------------------------------------
(* The catalog: the start of the bot, !reload, and the commands that       *)
(* arrive meanwhile.  The bot runs on one asyncio event loop.  Neither     *)
(* load_sound_cache nor load_video_cache awaits: from the call of the      *)
(* first to the return of the second the event loop runs nothing else, and *)
(* a command that arrives waits in the inbox.  The walk advances file by   *)
(* file, so that a command may arrive at any point of it.                  *)

MaxTree == 2           \* most files a walk of a media folder yields
MaxInbox == 1          \* most commands that wait to be handled

\* the files of a media folder: two plain ones, one deeper with the stem of
\* the first, one the loop raises on, one of another format, one excluded
Files(kind) ==
    { File(<<folder_of(kind)>>, <<"a">>, ".mp3", FALSE),
      File(<<folder_of(kind)>>, <<"b">>, ".MP3", FALSE),
      File(<<folder_of(kind), "x">>, <<"a">>, ".mp3", FALSE),
      File(<<folder_of(kind)>>, <<"a", "b">>, ".mp3", TRUE),
      File(<<folder_of(kind), "x">>, <<"b">>, ".txt", FALSE),
      File(<<folder_of(kind), "Elvis">>, <<"a">>, ".mp3", FALSE) }

Listings(kind, n) == Distinct(Files(kind), n)

\* a walk of a listing that nothing interrupts, from the cache, list and
\* set it has reached: the snapshot it writes, or NoFile if it raises
RECURSIVE build(_, _, _, _, _)
build(kind, listing, cache, files, folders) ==
    IF listing = <<>> THEN Snapshot(cache, files, folders)
    ELSE IF body(kind, Head(listing)) = "raise" THEN NoFile
    ELSE IF body(kind, Head(listing)) = "add"
    THEN build(kind, Tail(listing),
               cache_set(cache, Head(listing).filepath.stem,
                         Head(listing).filepath),
               Append(files, Head(listing).filepath.stem),
               folders \cup {relative_parent(Head(listing).filepath)})
    ELSE build(kind, Tail(listing), cache, files, folders)

\* the snapshot files an earlier run of the bot may have left: none, or
\* the one written by a build of a folder of at most one file
Snapshots(kind) ==
    {NoFile} \cup {build(kind, l, <<>>, <<>>, {}) : l \in Listings(kind, 1)}

\* `MediaSelfBot()` on media folders of which one holds files
InitCatalog ==
    /\ start({})
    /\ bot = EmptyBot
    /\ \/ \E l \in Listings("sound", MaxTree) :
              tree = [sound |-> l, video |-> <<>>]
       \/ \E l \in Listings("video", MaxTree) :
              tree = [sound |-> <<>>, video |-> l]
    /\ disk = {tree.sound[i].filepath : i \in 1..Len(tree.sound)}
                  \cup {tree.video[i].filepath : i \in 1..Len(tree.video)}
    /\ pickled \in [sound : Snapshots("sound"), video : Snapshots("video")]
    /\ loader = ConstructedLoader
    /\ inbox = <<>>
    /\ args = NoArgs
    /\ reply = NoReply

\* the event loop is free to run a handler: on_ready and reload_cache are
\* not running or are suspended in an await
Free == loader.pc \in {"constructed", "announced", "loaded", "idle"}

\* a forced build is between its first and its last statement
Rebuilding ==
    loader.force /\ loader.pc \in {"sounds", "load_video_cache", "videos"}

\* a command arrives from Discord.  What it records of the moment it
\* arrives is history: whether a forced build was running, whether
\* reload_cache was, and the sound cache as it was before reload_cache
\* began (the cache of the moment when it is not running).
arrive(command, query) ==
    /\ Len(inbox) < MaxInbox
    /\ inbox' = Append(inbox,
                       [command    |-> command,
                        query      |-> query,
                        rebuilding |-> Rebuilding,
                        reloading  |-> loader.force,
                        old        |-> IF loader.force
                                       THEN loader.old_sound_cache
                                       ELSE bot.sound_cache])
    /\ reply' = NoReply
    /\ UNCHANGED <<manager, endpoint, task, returned, traced, wire,
                   bot, disk, args, tree, pickled, loader>>

\* on_message for the command at the head of the inbox, `!play query` or
\* `!search query`, from the message to its last reply.  cache is the
\* sound cache the resolver went through, pc where on_ready or
\* reload_cache stood.
on_message ==
    /\ Free
    /\ inbox # <<>>
    /\ inbox' = Tail(inbox)
    /\ reply' = [op      |-> "on_message",
                 arrived |-> Head(inbox),
                 pc      |-> loader.pc,
                 cache   |-> bot.sound_cache,
                 outcome |-> IF Head(inbox).command = "!play"
                             THEN web_play("play", bot.sound_cache,
                                           Head(inbox).query, TRUE, TRUE)
                             ELSE web_search("search", bot.sound_cache,
                                             Head(inbox).query, disk)]
    /\ UNCHANGED <<manager, endpoint, task, returned, traced, wire,
                   bot, disk, args, tree, pickled, loader>>

\* load_sound_cache is called, by on_ready or by reload_cache after its
\* first reply
load_sound_cache_begin ==
    /\ loader.pc \in {"constructed", "announced"}
    /\ bot' = load_enter("sound", loader, bot, pickled,
                         "load_video_cache").bot
    /\ loader' = load_enter("sound", loader, bot, pickled,
                            "load_video_cache").loader
    /\ reply' = NoReply
    /\ UNCHANGED <<manager, endpoint, task, returned, traced, wire,
                   disk, args, tree, pickled, inbox>>

\* load_video_cache is called
load_video_cache_begin ==
    /\ loader.pc = "load_video_cache"
    /\ bot' = load_enter("video", loader, bot, pickled, "loaded").bot
    /\ loader' = load_enter("video", loader, bot, pickled, "loaded").loader
    /\ reply' = NoReply
    /\ UNCHANGED <<manager, endpoint, task, returned, traced, wire,
                   disk, args, tree, pickled, inbox>>

\* the walk of a kind yields its next file, or is over
load_step(kind, next) ==
    /\ loader.pc = walking(kind)
    /\ IF loader.pos < Len(tree[kind])
       THEN /\ bot' = load_file(kind, loader, bot,
                                tree[kind][loader.pos + 1],
                                body(kind, tree[kind][loader.pos + 1]),
                                next).bot
            /\ loader' = load_file(kind, loader, bot,
                                   tree[kind][loader.pos + 1],
                                   body(kind, tree[kind][loader.pos + 1]),
                                   next).loader
            /\ pickled' = pickled
       ELSE /\ bot' = bot
            /\ loader' = load_save(kind, loader, bot, pickled, next).loader
            /\ pickled' = load_save(kind, loader, bot, pickled, next).pickled
    /\ reply' = NoReply
    /\ UNCHANGED <<manager, endpoint, task, returned, traced, wire,
                   disk, args, tree, inbox>>

\* load_sound_cache, one turn of its loop
load_sound_cache_step == load_step("sound", "load_video_cache")

\* load_video_cache, one turn of its loop
load_video_cache_step == load_step("video", "loaded")

\* on_ready or reload_cache sends its last replies and returns
loaded_return ==
    /\ loader.pc = "loaded"
    /\ loader' = IdleLoader
    /\ reply' = NoReply
    /\ UNCHANGED <<manager, endpoint, task, returned, traced, wire,
                   bot, disk, args, tree, pickled, inbox>>

\* `!reload`: reload_cache up to its first reply
reload_cache_begin ==
    /\ loader.pc = "idle"
    /\ loader' = Loader("announced", TRUE, bot.sound_cache, bot.video_cache)
    /\ reply' = NoReply
    /\ UNCHANGED <<manager, endpoint, task, returned, traced, wire,
                   bot, disk, args, tree, pickled, inbox>>

\* the process is stopped and started again: `MediaSelfBot()`
restart ==
    /\ loader.pc = "idle"
    /\ bot' = EmptyBot
    /\ loader' = ConstructedLoader
    /\ inbox' = <<>>
    /\ reply' = NoReply
    /\ UNCHANGED <<manager, endpoint, task, returned, traced, wire,
                   disk, args, tree, pickled>>

NextCatalog ==
    \/ \E command \in {"!play", "!search"} : arrive(command, <<"a">>)
    \/ on_message
    \/ load_sound_cache_begin
    \/ load_sound_cache_step
    \/ load_video_cache_begin
    \/ load_video_cache_step
    \/ loaded_return
    \/ reload_cache_begin
    \/ restart

SpecCatalog == InitCatalog /\ [][NextCatalog]_vars

----------------------------------------------------------------------------
(* Properties *)

Active == Range(manager.active_connections)

\* the step on which call b returns to its caller
Returns(b) == task[b].pc # "done" /\ task'[b].pc = "done"

\* a call has just returned
Returned == returned.call # None

NoDuplicates(s) ==
    \A i, j \in 1..Len(s) : i # j => s[i] # s[j]

\* C1 (as claimed): the clients_notified of a broadcast equals the number
\* of sessions that were registered immediately before the broadcast began,
\* whatever sends failed and were pruned during it.
C1_CountIsMembersBefore ==
    Returned =>
        returned.response.clients_notified = Len(returned.members0)

\* C1 (amended): the clients_notified of a broadcast equals the number of
\* sessions registered at the moment the call returns: the sessions
\* registered just before the final prune, less those whose send failed in
\* this call.
C1_CountIsMembersAtReturn ==
    [][\A b \in Broadcasts :
          Returns(b) =>
              /\ returned'.call = b
              /\ returned'.response.clients_notified
                     = Len(manager'.active_connections)
              /\ returned'.response.clients_notified
                     = Cardinality(Active \ Range(returned'.disconnected))]_vars

\* a broadcast begun with two sessions has returned, one send failed, and
\* the count is 1
C1_Witness ==
    /\ Returned
    /\ Len(returned.members0) = 2
    /\ Len(returned.disconnected) = 1
    /\ returned.response.clients_notified = 1

\* C2: a broadcast sends only to the sessions that were registered when the
\* call began; a session that connects while the call is suspended on a
\* send is not sent the message.
C2_OnlyMembersAtStart ==
    \A b \in Broadcasts :
        Range(task[b].sent) \subseteq Range(task[b].members0)

\* C3: when a broadcast call with a failed send returns, it returns
\* normally and every session that did not fail and was registered for the
\* whole call has been sent the message.
C3_FailureIndependent ==
    (Returned /\ returned.disconnected # <<>>) =>
        /\ returned.response.status = "success"
        /\ (returned.stayed \ Range(returned.disconnected))
               \subseteq Range(returned.sent)

\* C4: in the state a broadcast call returns to, no session whose send
\* failed during the call is in the active-session list, so none is in the
\* count of active sessions.
C4_FailedAbsentAfterReturn ==
    Returned =>
        /\ Range(returned.disconnected) \cap Active = {}
        /\ Len(manager.active_connections)
               = Cardinality(Active \ Range(returned.disconnected))

\* a broadcast has returned after a failed send to a session whose
\* endpoint is still open, and another session is still active
C4_Witness ==
    \E w \in WebSockets :
        /\ Returned
        /\ w \in Range(returned.disconnected)
        /\ endpoint[w] = "open"
        /\ Active # {}

\* C5: of two broadcast calls, the one that began first is sent first to
\* every session that is sent both: the call whose message a session was
\* sent last never goes back to a call that began earlier (calls are
\* numbered in the order they begin).
C5_CallOrderPerSession ==
    [][\A w \in WebSockets : wire[w] <= wire'[w]]_vars

\* C6: the registry holds a state entry only for handles that are in the
\* active-session list.
C6_StatesOnlyForActive ==
    DOMAIN manager.media_states \subseteq Active

\* C7: a client message from a handle that is not registered leaves the
\* active-session list and the stored states unchanged.
C7_UnknownHandleIgnored ==
    [][\A w \in WebSockets, data \in Messages :
          (w \notin Active /\ ws_message(w, data)) =>
              manager' = manager]_vars

\* C8: unregistering a session that is already unregistered changes
\* nothing: neither the transport's disconnect event for a session that a
\* broadcast has pruned, nor a broadcast's prune of sessions that have
\* disconnected meanwhile, changes the list or the stored states.
C8_SecondUnregisterNoOp ==
    [][/\ \A w \in WebSockets :
             (w \notin Active /\ ws_disconnect(w)) => manager' = manager
       /\ \A b \in Broadcasts :
             (Returns(b) /\ Range(returned'.disconnected) \cap Active = {})
                 => manager' = manager]_vars

\* a broadcast has returned whose send to a session failed and whose prune
\* found that session unregistered by its disconnect event, while another
\* session stays registered with a reported state
C8_Witness ==
    \E w, v \in WebSockets :
        /\ Returned
        /\ w \in Range(returned.disconnected)
        /\ endpoint[w] = "closed"
        /\ v \in Active
        /\ DictGet(manager.media_states, v, "null") = "playing"

\* C9: a broadcast begun with no registered session sends nothing, returns
\* normally with a count of 0 and leaves the registry unchanged.
C9_EmptyBroadcast ==
    [][\A b \in Broadcasts :
          (task[b].pc = "idle" /\ task'[b].pc # "idle"
               /\ manager.active_connections = <<>>) =>
              /\ task'[b].pc = "done"
              /\ returned'.call = b
              /\ returned'.sent = <<>>
              /\ returned'.response
                     = [status |-> "success", clients_notified |-> 0]
              /\ manager' = manager]_vars

\* a broadcast that sent nothing has returned with a count of 0, after a
\* session had connected
C9_Witness ==
    /\ Returned
    /\ returned.sent = <<>>
    /\ returned.response.clients_notified = 0
    /\ \E w \in WebSockets : endpoint[w] # "new"

\* C10: within one broadcast call send_text is called at most once per
\* session, a session whose send failed included.
C10_AtMostOncePerCall ==
    /\ \A b \in Broadcasts : NoDuplicates(task[b].sent)
    /\ NoDuplicates(returned.sent)

\* a broadcast has returned after two sends, one of them failed, while
\* another broadcast is suspended on a send
C10_Witness ==
    /\ Returned
    /\ Len(returned.sent) = 2
    /\ returned.disconnected # <<>>
    /\ \E c \in Broadcasts : task[c].pc = "sending"

\* the session that connected first / last among the registered ones
\* (websockets are numbered in the order they connect)
Oldest == CHOOSE w \in Active : \A v \in Active : w <= v
Newest == CHOOSE w \in Active : \A v \in Active : v <= w

\* C11 (as claimed): with at least one session registered, GET /health
\* reports the last reported state of the most recently connected of the
\* registered sessions; with none it reports "null".
C11_HealthOfNewest ==
    health_check(manager).media_status =
        IF Active # {} THEN manager.media_states[Newest] ELSE "null"

\* C11 (amended): with at least one session registered, GET /health
\* reports the last reported state of the session that connected first
\* among the registered ones; with none it reports "null".
C11_HealthOfOldest ==
    /\ Active # {} => Oldest \in DOMAIN manager.media_states
    /\ health_check(manager).media_status =
           IF Active # {} THEN manager.media_states[Oldest] ELSE "null"

\* two sessions are registered, the first has reported "playing" and the
\* second has reported nothing, and /health says "playing"
C11_Witness ==
    /\ Len(manager.active_connections) = 2
    /\ manager.media_states[Oldest] = "playing"
    /\ manager.media_states[Newest] = "null"
    /\ health_check(manager).media_status = "playing"

----------------------------------------------------------------------------
(* Properties of the commands *)

Played == reply.op \in {"play", "vplay"}

\* the cache a command works on
cache_of(op) ==
    IF op \in {"play", "search"} THEN bot.sound_cache ELSE bot.video_cache

\* C12: a play or video-play command calls the trigger of the bridge only
\* if the score of the first result is at least 0.8; when it is below 0.8
\* nothing is triggered and the one reply says that nothing matched enough
\* and names the first result.
C12_PlayOnlyIfConfident ==
    Played =>
        /\ reply.played # NoPath =>
               /\ reply.matches # <<>>
               /\ reply.matches[1].score >= Pct(80)
               /\ reply.played = reply.matches[1].filepath
        /\ (reply.matches # <<>> /\ reply.matches[1].score < Pct(80)) =>
               /\ reply.played = NoPath
               /\ reply.said = <<"not matched enough">>
               /\ reply.shown = <<reply.matches[1].filepath.stem>>

\* a video-play command has triggered a video that scored 0.92, and a
\* second result scored less than 0.8
C12_Witness ==
    /\ reply.op = "vplay"
    /\ reply.played # NoPath
    /\ reply.matches[1].score = Pct(92)
    /\ Len(reply.matches) = 2
    /\ reply.matches[2].score < Pct(80)

\* C13: a play or video-play command calls the trigger of the bridge only
\* with a path that exists on disk at that moment.
C13_PlayedPathExists ==
    (Played /\ reply.played # NoPath) => reply.played \in disk

Searched == reply.op \in {"search", "vsearch"} /\ reply.said = <<"results">>

\* the number of lines the reply of a search has for a stem
Lines(stem) ==
    Cardinality({i \in 1..Len(reply.shown) : reply.shown[i] = stem})

\* C14: the reply of a search has no line for a returned match whose path
\* is gone from the disk and exactly one line for every returned match
\* whose path exists.
C14_ShownAreTheExisting ==
    Searched =>
        \A i \in 1..Len(reply.matches) :
            Lines(reply.matches[i].filepath.stem) =
                IF reply.matches[i].filepath \in disk THEN 1 ELSE 0

\* C15: a play or video-play command on an empty cache is answered with
\* "cache not loaded", and "nothing found" is the answer only when the
\* cache holds entries.
C15_EmptyIndexNotReady ==
    Played =>
        /\ cache_of(reply.op) = <<>> => reply.said = <<"cache not loaded">>
        /\ "nothing found" \in Range(reply.said) =>
               cache_of(reply.op) # <<>>

----------------------------------------------------------------------------
(* Properties of the resolver *)

Resolved == reply.op \in {"search_sounds", "search_videos"}

\* the position of a path in the cache that was searched
Position(filepath) ==
    CHOOSE j \in 1..Len(reply.cache) : reply.cache[j].filepath = filepath

\* the positions of the cache entries that were returned
ReturnedPositions ==
    {Position(reply.matches[i].filepath) : i \in 1..Len(reply.matches)}

\* the score of the cache entry at position j for the query
ScoreAt(j) == calculate_similarity(reply.cache[j].stem, args.query)

\* every result is an entry of the cache with the score of its stem, and
\* no entry is returned twice
ResultsAreEntries ==
    /\ \A i \in 1..Len(reply.matches) :
           /\ reply.matches[i].filepath \in paths(reply.cache)
           /\ reply.matches[i].score =
                  ScoreAt(Position(reply.matches[i].filepath))
    /\ Cardinality(ReturnedPositions) = Len(reply.matches)

\* C16: the resolver returns at most 5 results, their scores do not
\* increase from first to last, and every returned score is at least the
\* score of every entry that is not returned.
C16_TopFiveDescending ==
    Resolved =>
        /\ ResultsAreEntries
        /\ Len(reply.matches) <= 5
        /\ \A i \in 1..(Len(reply.matches) - 1) :
               reply.matches[i].score >= reply.matches[i + 1].score
        /\ \A i \in 1..Len(reply.matches) :
           \A j \in (1..Len(reply.cache)) \ ReturnedPositions :
               reply.matches[i].score >= ScoreAt(j)

\* six entries were searched, five are returned, and the one left out
\* scores less than the fifth and is not the last of the cache
C16_Witness ==
    /\ Resolved
    /\ Len(reply.cache) = 6
    /\ Len(reply.matches) = 5
    /\ \E j \in 1..5 :
           /\ j \notin ReturnedPositions
           /\ ScoreAt(j) < reply.matches[5].score

\* C17: entries of equal score are returned in the order they have in the
\* cache, and of the entries that score as the last result does, the ones
\* left out by the cut to 5 come later in the cache than the ones returned.
C17_TiesInInsertionOrder ==
    Resolved =>
        /\ \A i, k \in 1..Len(reply.matches) :
               (i < k /\ reply.matches[i].score = reply.matches[k].score) =>
                   Position(reply.matches[i].filepath)
                       < Position(reply.matches[k].filepath)
        /\ \A i \in 1..Len(reply.matches) :
           \A j \in (1..Len(reply.cache)) \ ReturnedPositions :
               ScoreAt(j) = reply.matches[i].score =>
                   Position(reply.matches[i].filepath) < j

\* six entries were searched, the third and fourth result score equal,
\* and the entry left out scores as the fifth does
C17_Witness ==
    /\ Resolved
    /\ Len(reply.cache) = 6
    /\ Len(reply.matches) = 5
    /\ reply.matches[3].score = reply.matches[4].score
    /\ \E j \in (1..6) \ ReturnedPositions :
           ScoreAt(j) = reply.matches[5].score

----------------------------------------------------------------------------
(* Properties of the similarity engine *)

Scored == reply.op = "calculate_similarity"

\* lowercased, whitespace collapsed, trimmed
Normal(s) == normalize_string(s)

\* the string has an opening parenthesis or a hyphen
Extra(s) == \E i \in 1..Len(s) : s[i] \in {"(", "-"}

\* the string has a parenthesis of either kind or a hyphen
Punctuated(s) == \E i \in 1..Len(s) : s[i] \in {"(", ")", "-"}

\* the stem and the query have the same base name
SameBase == extract_base_name(args.stem) = extract_base_name(args.query)

\* the stem and the query have the same base name, which is not empty
SameSolidBase == SameBase /\ extract_base_name(args.stem) # <<>>

\* C18: a stem and a query whose normalized forms are identical score
\* exactly 1.0.
C18_NormalizedEqualScoresOne ==
    (Scored /\ Normal(args.stem) = Normal(args.query)) => reply.score = One

\* a stem and a query that differ in case and blanks, and have a hyphen,
\* have scored 1.0
C18_Witness ==
    /\ Scored
    /\ args.stem # args.query
    /\ Normal(args.stem) = Normal(args.query)
    /\ Extra(args.stem)
    /\ SameSolidBase
    /\ reply.score = One

\* C19 (as claimed): a stem and a query with equal base names, neither of
\* which has a parenthesis or a hyphen, score exactly 0.95.
C19_BaseEqualPlainScores95 ==
    (Scored /\ SameBase /\ ~Punctuated(args.stem) /\ ~Punctuated(args.query))
        => reply.score = Pct(95)

\* C19 (amended): of a stem and a query with equal base names that are not
\* empty, a pair in which neither has an opening parenthesis or a hyphen
\* has identical normalized forms and scores 1.0, and a pair in which both
\* have one and whose normalized forms differ scores exactly 0.95.
C19_BaseEqualBothExtraScores95 ==
    (Scored /\ SameSolidBase) =>
        /\ (~Extra(args.stem) /\ ~Extra(args.query)) =>
               /\ Normal(args.stem) = Normal(args.query)
               /\ reply.score = One
        /\ (/\ Extra(args.stem)
            /\ Extra(args.query)
            /\ Normal(args.stem) # Normal(args.query)) =>
               reply.score = Pct(95)

\* a stem with a parenthesis and a query with a hyphen, of the same base
\* name, have scored 0.95
C19_Witness ==
    /\ Scored
    /\ SameSolidBase
    /\ "(" \in Range(args.stem)
    /\ "-" \notin Range(args.stem)
    /\ "-" \in Range(args.query)
    /\ reply.score = Pct(95)

\* C20: for a stem and a query with equal base names that are not empty,
\* of which exactly one has a parenthesis or a hyphen, the score is 0.92,
\* and it is 0.92 with the two exchanged.
C20_OneSideExtraScores92 ==
    (/\ Scored
     /\ SameSolidBase
     /\ \/ Extra(args.stem) # Extra(args.query)
        \/ Punctuated(args.stem) # Punctuated(args.query)) =>
        /\ reply.score = Pct(92)
        /\ calculate_similarity(args.query, args.stem) = Pct(92)

\* a plain stem has scored 0.92 for a query of the same base name that
\* has a hyphen
C20_Witness ==
    /\ Scored
    /\ SameSolidBase
    /\ ~Punctuated(args.stem)
    /\ "-" \in Range(args.query)
    /\ reply.score = Pct(92)

----------------------------------------------------------------------------
(* Properties of the score *)

\* the partial match before its boosts: 0.7 of the ratio of the base names
\* and 0.3 of the ratio of the normalized names
Weighted ==
    (7 * ratio(extract_base_name(args.stem), extract_base_name(args.query))
        + 3 * ratio(Normal(args.stem), Normal(args.query))) \div 10

\* the normalized query lies in the normalized stem and is not all of it
QueryContained ==
    /\ contains(Normal(args.stem), Normal(args.query))
    /\ Normal(args.query) # Normal(args.stem)

\* the base name of the query lies in the base name of the stem and is not
\* all of it
BaseContained ==
    /\ contains(extract_base_name(args.stem), extract_base_name(args.query))
    /\ extract_base_name(args.query) # extract_base_name(args.stem)

\* the exact base match is the rule that scores stem for query
BaseExact(stem, query) ==
    /\ Normal(stem) # Normal(query)
    /\ extract_base_name(stem) = extract_base_name(query)
    /\ extract_base_name(stem) # <<>>

\* C21: for every stem and query the score lies between 0 and 1, whichever
\* rule gives it: the exact match, the exact base match, or the weighted
\* sum of the two ratios with the two capped boosts.
C21_ScoreInUnitInterval ==
    Scored => (reply.score >= 0 /\ reply.score <= One)

\* a partial match has got both boosts, which without their caps would
\* have taken it above 1
C21_Witness ==
    /\ Scored
    /\ ~BaseExact(args.stem, args.query)
    /\ QueryContained
    /\ BaseContained
    /\ Weighted + Pct(15) + Pct(10) > One
    /\ reply.score <= One


----------------------------------------------------------------------------
(* Properties of the catalog *)

\* a command has just been handled
Handled == reply.op = "on_message"

\* the cache of every file of a listing that is of a supported format, is
\* not excluded and can be processed
RECURSIVE complete(_, _, _)
complete(kind, listing, cache) ==
    IF listing = <<>> THEN cache
    ELSE complete(kind, Tail(listing),
                  IF body(kind, Head(listing)) = "add"
                  THEN cache_set(cache, Head(listing).filepath.stem,
                                 Head(listing).filepath)
                  ELSE cache)

\* the index a build of the media folder of a kind is to give
NewIndex(kind) == complete(kind, tree[kind], <<>>)

\* C22: a command that arrived while reload_cache was running, whether or
\* not the build stops on an error, is resolved against the whole index of
\* before the reload or the whole new one, never an empty or partly filled
\* one.
C22_OldOrNewIndex ==
    (Handled /\ reply.arrived.reloading) =>
        reply.cache \in {reply.arrived.old, NewIndex("sound")}

\* C23: a play command that arrives while a forced build is running is
\* handled before the build is over, and is resolved against the index of
\* before the reload.
C23_PlayNotBlockedByRebuild ==
    (/\ Handled
     /\ reply.arrived.command = "!play"
     /\ reply.arrived.rebuilding) =>
        /\ reply.pc \notin {"loaded", "idle"}
        /\ reply.cache = reply.arrived.old

\* the last thing load_sound_cache or load_video_cache has logged
LastLog == loader.log[Len(loader.log)]

\* load_sound_cache has just returned from its `pickle.load`
SoundLoaded ==
    /\ loader.pc = "load_video_cache"
    /\ LastLog = <<"sound", "loaded">>

\* load_video_cache has just returned from its `pickle.load`
VideoLoaded ==
    /\ loader.pc = "loaded"
    /\ LastLog = <<"video", "loaded">>

\* C24: a snapshot file unpickles to the stem-to-path mapping of the index
\* that was saved to it, and a start of the bot that loads the snapshot
\* leaves that mapping in the cache.
C24_SnapshotRoundTrip ==
    /\ \A kind \in Kinds :
           pickled[kind].exists =>
               pickle_load(pickled[kind].bytes)[1] = pickled[kind].saved
    /\ SoundLoaded => bot.sound_cache = pickled.sound.saved
    /\ VideoLoaded => bot.video_cache = pickled.video.saved

\* the bot has started from a sound snapshot that a build of this run
\* wrote: two files were found, the second in a folder below the first
C24_Witness ==
    /\ SoundLoaded
    /\ ~loader.force
    /\ Len(pickled.sound.bytes.list) = 2
    /\ Len(bot.sound_cache) = 2
    /\ bot.sound_cache[1].filepath.folder = <<"Musique">>
    /\ bot.sound_cache[2].filepath.folder = <<"Musique", "x">>

\* a walk of the folder of a kind has just ended, by its end or by an error
Built(kind) ==
    /\ loader.pc = (IF kind = "sound" THEN "load_video_cache" ELSE "loaded")
    /\ LastLog \in {<<kind, "cached">>, <<kind, "error">>}

\* C25: when a build has ended, the cache holds every file of the folder
\* that is of a supported format, is not excluded and can be processed,
\* whatever file could not be, and the snapshot of that cache is written.
C25_BuildSkipsAndContinues ==
    \A kind \in Kinds :
        Built(kind) =>
            /\ bot[attr(kind)] = NewIndex(kind)
            /\ pickled[kind].exists
            /\ pickled[kind].saved = bot[attr(kind)]

\* the cache of a kind that reload_cache found when it began
OldIndex(kind) ==
    IF kind = "sound" THEN loader.old_sound_cache
    ELSE loader.old_video_cache

\* C28: once a forced build of a kind has ended on an error, the cache of
\* that kind is the one that was in place before the reload began.
C28_FailedRebuildKeepsIndex ==
    \A kind \in Kinds :
        (loader.force /\ <<kind, "error">> \in Range(loader.log)) =>
            bot[attr(kind)] = OldIndex(kind)

----------------------------------------------------------------------------
(* Properties of the size of a result *)

\* C30: for a cache of n entries and any query the resolver returns
\* min(5, n) results, so it returns none only for an empty cache, and the
\* search command never answers that nothing was found in a cache that
\* holds entries.
C30_ReturnsMinFiveN ==
    Resolved =>
        /\ Len(reply.matches) = MinOf({TopN, Len(reply.cache)})
        /\ reply.matches = <<>> <=> reply.cache = <<>>
        /\ search_reply("search", args.query, reply.matches,
                        Len(reply.cache), {}).said # <<"nothing found">>

\* a cache of more than five entries has been searched and five results
\* were returned, none of them the entry that scores 0
C30_Witness ==
    /\ Resolved
    /\ Len(reply.cache) > TopN
    /\ Len(reply.matches) = TopN
    /\ \E i \in 1..Len(reply.cache) : ScoreAt(i) = 0
    /\ \A j \in 1..TopN : reply.matches[j].score > 0

----------------------------------------------------------------------------
(* Properties of !play and !loop *)

\* a !play or !loop command has called the trigger of the bridge: what it
\* posted to /play
Posted == play_json(reply.outcome.played, reply.loop)

Triggered ==
    /\ reply.op \in {"!play", "!loop"}
    /\ reply.outcome.played # NoPath

\* C29: the json that a !loop command posts to /play has loop true, for a
\* named sound and for $random, and the one a !play command posts has
\* loop false.
C29_LoopFlagFollowsCommand ==
    Triggered => (Posted.loop <=> reply.op = "!loop")

----------------------------------------------------------------------------
(* Properties of a broadcast among connects and disconnects *)

\* C26: whatever sessions connect and disconnect while a broadcast is
\* suspended on its sends, every session that is registered from the
\* beginning of the call to its end has been sent the message when the
\* call returns.
C26_StayedAreSent ==
    Returned => returned.stayed \subseteq Range(returned.sent)

----------------------------------------------------------------------------
(* Properties of the ranking of base names *)

\* stems made of a query and an annotation after or before it
Rivals(query) ==
    { query \o <<"-", "b">>, <<"(", "b", ")">> \o query }

\* C27: when the exact base match does not apply and the base name of the
\* query is a proper part of the base name of the stem, the score is at
\* most 0.90, the cap of 0.90 coming after the cap of 0.95; so every stem
\* that the exact base match scores for the same query scores higher, and
\* the descending sort of the resolver puts it first.
C27_BaseContainmentBelowBaseExact ==
    (/\ Scored
     /\ ~BaseExact(args.stem, args.query)
     /\ BaseContained) =>
        /\ reply.score <= Pct(90)
        /\ \A rival \in Rivals(args.query) :
               BaseExact(rival, args.query) =>
                   calculate_similarity(rival, args.query) > reply.score

\* a stem whose base name contains that of the query has scored 0.90 after
\* the first boost had taken it to the cap of 0.95, and the query with an
\* annotation after a hyphen is scored by the exact base match
C27_Witness ==
    /\ Scored
    /\ ~BaseExact(args.stem, args.query)
    /\ BaseContained
    /\ QueryContained
    /\ Weighted + Pct(15) >= Pct(95)
    /\ reply.score = Pct(90)
    /\ BaseExact(args.query \o <<"-", "b">>, args.query)

====
